---- MODULE Spec2Model ----
(***************************************************************************)
(* Model of drone_simulation.py: the Drone (motion, recorded path, clipped *)
(* path), the UrbanEnvironment (obstacles, delivery sequencer, metrics)    *)
(* and the operations of its main loop (update once per frame, mouse click *)
(* and the SPACE / R / C / N keys).                                        *)
(*                                                                         *)
(* Coordinates are kept on the integer lattice (screen pixels): every      *)
(* click position, waypoint, building and zone of the program is an        *)
(* integer.  An axis-aligned move adds exactly +-speed; a diagonal move is *)
(* rounded to the nearest lattice point.  The battery is counted in        *)
(* hundredths of a percent (100 -> 10000, 0.01 -> 1).  simulation_time is  *)
(* counted in frames (1/60 s).  total_processing_time is wall-clock time   *)
(* and is left out.  Drawing is left out.                                  *)
(***************************************************************************)
EXTENDS Integers, Sequences, FiniteSets, TLC

\* ------------------------------------------------------------------ bounds
\* update() is modelled for at most MaxTicks unpaused frames ...
MaxTicks == 11
\* ... and at most MaxPlanned targets are set by click or N key.
MaxPlanned == 1
\* ... and at most MaxKeys presses of the SPACE, R and C keys are made.
MaxKeys == 1
\* Frames of the uninterrupted flight (specification FlightSpec).
FlightTicks == 340
\* Frames and advances of the delivery round (specification RoundSpec).
RoundTicks == 4
RoundPlanned == 6

\* ------------------------------------------------------- program constants
speed == 3
PathLimit == 100
BatteryFull == 10000
BatteryCost == 1
ArrivalRadius == 10
StartPos == <<100, 100>>

Rect(x, y, width, height) == [x |-> x, y |-> y, w |-> width, h |-> height]

Zone(cx, cy, r) == [cx |-> cx, cy |-> cy, radius |-> r]

no_fly_zones == << Zone(400, 300, 80), Zone(700, 500, 60), Zone(900, 200, 70) >>

delivery_points ==
  << <<100, 100>>, <<1100, 100>>, <<1100, 700>>, <<100, 700>>, <<600, 400>> >>

\* _generate_buildings draws 15 rectangles at random (x in 50..1050,
\* y in 50..650, width and height in 80..200).  A layout keeps the buildings
\* that lie near the drone's routes; the others are never touched.
LayoutA == << Rect(103, 95, 80, 80) >>

LayoutB == << Rect(200, 60, 80, 80), Rect(1050, 50, 100, 100) >>

\* A building over the depot whose right edge, x = 130, crosses the route to
\* the second delivery point.
LayoutC == << Rect(50, 50, 80, 80) >>

Layouts == {LayoutA, LayoutB, LayoutC}

\* Positions a mouse click is tried at.
ClickPoints ==
  { <<100, 100>>, <<104, 100>>, <<130, 100>>, <<112, 91>>,
    <<400, 300>>, <<480, 300>> }

\* ------------------------------------------------------------------ state
VARIABLES
  buildings,         \* UrbanEnvironment.buildings (fixed between resets)
  drone,             \* UrbanEnvironment.drone: the Drone's fields
  metrics,           \* UrbanEnvironment.metrics: NavigationMetrics
  current_delivery,  \* index into delivery_points (0-based)
  simulation_time,   \* unpaused frames so far
  is_paused,
  keys,              \* history: SPACE, R and C presses so far
  op,                \* history: the operation that produced this state
  flown,             \* history: every position appended since the path was last emptied
  leg                \* history: where the current target was set, and unpaused frames since

vars == << buildings, drone, metrics, current_delivery, simulation_time,
           is_paused, keys, op, flown, leg >>

\* ---------------------------------------------------------------- helpers
Abs(n) == IF n < 0 THEN -n ELSE n

Sign(n) == IF n < 0 THEN -1 ELSE IF n > 0 THEN 1 ELSE 0

Dist2(ax, ay, bx, by) == (bx - ax) * (bx - ax) + (by - ay) * (by - ay)

\* (d / distance) * speed for distance = sqrt(dist2), rounded to the lattice:
\* the largest k with k - 1/2 <= |d| * speed / sqrt(dist2).
StepToward(d, dist2) ==
  LET a == Abs(d) * speed
      K == { k \in 0..speed : k = 0 \/ (2*k - 1) * (2*k - 1) * dist2 <= 4 * a * a }
  IN  Sign(d) * (CHOOSE k \in K : \A j \in K : j <= k)

\* Mutant of collidepoint: all four edges are inside.
collidepoint_inclusive(rect, px, py) ==
  /\ rect.x <= px /\ px <= rect.x + rect.w
  /\ rect.y <= py /\ py <= rect.y + rect.h

\* pygame.Rect.collidepoint: the left and top edges are inside, the right and
\* bottom edges are not.
collidepoint(rect, px, py) ==
  /\ rect.x <= px /\ px < rect.x + rect.w
  /\ rect.y <= py /\ py < rect.y + rect.h

\* NoFlyZone.contains_point: sqrt(dx^2 + dy^2) <= radius.
contains_point(zone, px, py) ==
  Dist2(zone.cx, zone.cy, px, py) <= zone.radius * zone.radius

\* The obstacle test of clip_path_to_obstacles and of handle_click.
in_obstacle(bs, px, py) ==
  \/ \E i \in 1..Len(bs) : collidepoint(bs[i], px, py)
  \/ \E i \in 1..Len(no_fly_zones) : contains_point(no_fly_zones[i], px, py)

\* ------------------------------------------------------------------ Drone
NewDrone(start_pos) ==
  [ x |-> start_pos[1], y |-> start_pos[2],
    target_x |-> start_pos[1], target_y |-> start_pos[2],
    path |-> << >>, clipped_path |-> << >>,
    is_moving |-> FALSE, battery |-> BatteryFull, carrying_package |-> TRUE ]

set_target(d, tx, ty) ==
  [d EXCEPT !.target_x = tx, !.target_y = ty, !.is_moving = TRUE]

\* Mutant of AppendBounded: the oldest point goes as soon as the length
\* reaches PathLimit.
AppendBoundedOffByOne(path, p) ==
  LET q == Append(path, p)
  IN  IF Len(q) >= PathLimit THEN Tail(q) ELSE q

\* The path after appending p: the oldest point goes once the length passes
\* PathLimit.
AppendBounded(path, p) ==
  LET q == Append(path, p)
  IN  IF Len(q) > PathLimit THEN Tail(q) ELSE q

\* TRUE when Drone.update takes the "distance > self.speed" branch.
FarFromTarget(d) ==
  Dist2(d.x, d.y, d.target_x, d.target_y) > speed * speed

\* Mutant of Drone_update: "distance >= self.speed" takes the moving branch.
Drone_update_ge(d) ==
  IF ~d.is_moving THEN d
  ELSE
    LET dx == d.target_x - d.x
        dy == d.target_y - d.y
        dist2 == dx * dx + dy * dy
    IN  IF dist2 >= speed * speed
        THEN LET nx == d.x + StepToward(dx, dist2)
                 ny == d.y + StepToward(dy, dist2)
             IN  [d EXCEPT !.x = nx, !.y = ny,
                           !.path = AppendBounded(d.path, <<nx, ny>>),
                           !.battery = d.battery - BatteryCost]
        ELSE [d EXCEPT !.x = d.target_x, !.y = d.target_y,
                       !.is_moving = FALSE,
                       !.carrying_package = FALSE]

\* Mutant of Drone_update: the position is appended on arrival too.
Drone_update_appends_on_arrival(d) ==
  IF ~d.is_moving THEN d
  ELSE
    LET dx == d.target_x - d.x
        dy == d.target_y - d.y
        dist2 == dx * dx + dy * dy
    IN  IF dist2 > speed * speed
        THEN LET nx == d.x + StepToward(dx, dist2)
                 ny == d.y + StepToward(dy, dist2)
             IN  [d EXCEPT !.x = nx, !.y = ny,
                           !.path = AppendBounded(d.path, <<nx, ny>>),
                           !.battery = d.battery - BatteryCost]
        ELSE [d EXCEPT !.x = d.target_x, !.y = d.target_y,
                       !.path = AppendBounded(d.path, <<d.target_x, d.target_y>>),
                       !.is_moving = FALSE,
                       !.carrying_package = FALSE]

\* Mutant of Drone_update: the drone normalises and steps whatever the
\* distance, and never takes the arrival branch.
Drone_update_always_steps(d) ==
  IF ~d.is_moving THEN d
  ELSE
    LET dx == d.target_x - d.x
        dy == d.target_y - d.y
        dist2 == dx * dx + dy * dy
        nx == d.x + StepToward(dx, dist2)
        ny == d.y + StepToward(dy, dist2)
    IN  [d EXCEPT !.x = nx, !.y = ny,
                  !.path = AppendBounded(d.path, <<nx, ny>>),
                  !.battery = d.battery - BatteryCost]

\* Mutant of Drone_update: the arrival frame pays the battery cost too.
Drone_update_arrival_costs(d) ==
  IF ~d.is_moving THEN d
  ELSE
    LET dx == d.target_x - d.x
        dy == d.target_y - d.y
        dist2 == dx * dx + dy * dy
    IN  IF dist2 > speed * speed
        THEN LET nx == d.x + StepToward(dx, dist2)
                 ny == d.y + StepToward(dy, dist2)
             IN  [d EXCEPT !.x = nx, !.y = ny,
                           !.path = AppendBounded(d.path, <<nx, ny>>),
                           !.battery = d.battery - BatteryCost]
        ELSE [d EXCEPT !.x = d.target_x, !.y = d.target_y,
                       !.is_moving = FALSE,
                       !.carrying_package = FALSE,
                       !.battery = d.battery - BatteryCost]

\* Mutant of Drone_update: arrival leaves the package flag as it was.
Drone_update_keeps_package(d) ==
  IF ~d.is_moving THEN d
  ELSE
    LET dx == d.target_x - d.x
        dy == d.target_y - d.y
        dist2 == dx * dx + dy * dy
    IN  IF dist2 > speed * speed
        THEN LET nx == d.x + StepToward(dx, dist2)
                 ny == d.y + StepToward(dy, dist2)
             IN  [d EXCEPT !.x = nx, !.y = ny,
                           !.path = AppendBounded(d.path, <<nx, ny>>),
                           !.battery = d.battery - BatteryCost]
        ELSE [d EXCEPT !.x = d.target_x, !.y = d.target_y,
                       !.is_moving = FALSE]

\* Mutant of Drone_update: an idle drone still pays the battery cost.
Drone_update_idle_drains(d) ==
  IF ~d.is_moving THEN [d EXCEPT !.battery = d.battery - BatteryCost]
  ELSE
    LET dx == d.target_x - d.x
        dy == d.target_y - d.y
        dist2 == dx * dx + dy * dy
    IN  IF dist2 > speed * speed
        THEN LET nx == d.x + StepToward(dx, dist2)
                 ny == d.y + StepToward(dy, dist2)
             IN  [d EXCEPT !.x = nx, !.y = ny,
                           !.path = AppendBounded(d.path, <<nx, ny>>),
                           !.battery = d.battery - BatteryCost]
        ELSE [d EXCEPT !.x = d.target_x, !.y = d.target_y,
                       !.is_moving = FALSE,
                       !.carrying_package = FALSE]

\* Mutant of Drone_update: on arrival the position is not set to the target.
Drone_update_no_snap(d) ==
  IF ~d.is_moving THEN d
  ELSE
    LET dx == d.target_x - d.x
        dy == d.target_y - d.y
        dist2 == dx * dx + dy * dy
    IN  IF dist2 > speed * speed
        THEN LET nx == d.x + StepToward(dx, dist2)
                 ny == d.y + StepToward(dy, dist2)
             IN  [d EXCEPT !.x = nx, !.y = ny,
                           !.path = AppendBounded(d.path, <<nx, ny>>),
                           !.battery = d.battery - BatteryCost]
        ELSE [d EXCEPT !.is_moving = FALSE,
                       !.carrying_package = FALSE]

Drone_update(d) ==
  IF ~d.is_moving THEN d
  ELSE
    LET dx == d.target_x - d.x
        dy == d.target_y - d.y
        dist2 == dx * dx + dy * dy
    IN  IF dist2 > speed * speed
        THEN LET nx == d.x + StepToward(dx, dist2)
                 ny == d.y + StepToward(dy, dist2)
             IN  [d EXCEPT !.x = nx, !.y = ny,
                           !.path = AppendBounded(d.path, <<nx, ny>>),
                           !.battery = d.battery - BatteryCost]
        ELSE [d EXCEPT !.x = d.target_x, !.y = d.target_y,
                       !.is_moving = FALSE,
                       !.carrying_package = FALSE]

\* Mutant of ClipStart: self.clipped_path is not emptied before the loop.
ClipStartKeepsOld(d) == [safe_path |-> << >>, clipped |-> d.clipped_path]

\* clip_path_to_obstacles keeps two accumulators while it scans the path:
\* safe_path (the run of safe points being collected) and clipped
\* (self.clipped_path).  ClipStart is their value before the loop.
ClipStart(d) == [safe_path |-> << >>, clipped |-> << >>]

\* Mutant of ClipStep: in_obstacle is set anew before the zones are tested,
\* so a hit on a building is lost.
ClipStepZonesOnly(bs, acc, point) ==
  IF ~in_obstacle(<< >>, point[1], point[2])
  THEN [acc EXCEPT !.safe_path = Append(acc.safe_path, point)]
  ELSE IF acc.safe_path # << >>
       THEN [safe_path |-> << >>, clipped |-> acc.clipped \o acc.safe_path]
       ELSE acc

\* One iteration of the loop, for one point of the path.
ClipStep(bs, acc, point) ==
  IF ~in_obstacle(bs, point[1], point[2])
  THEN [acc EXCEPT !.safe_path = Append(acc.safe_path, point)]
  ELSE IF acc.safe_path # << >>
       THEN [safe_path |-> << >>, clipped |-> acc.clipped \o acc.safe_path]
       ELSE acc

\* The accumulators after the iterations for the points lo..hi of the path,
\* entered with acc.  The range is halved, and the first half's result is
\* bound through a singleton set so that it is a value before the second
\* half starts: the evaluation stays shallow for a path of 100 points.
RECURSIVE ClipLoop(_, _, _, _, _)
ClipLoop(bs, path, lo, hi, acc) ==
  IF lo > hi THEN acc
  ELSE IF lo = hi THEN ClipStep(bs, acc, path[lo])
  ELSE LET mid == (lo + hi) \div 2
       IN  CHOOSE r \in { ClipLoop(bs, path, mid + 1, hi, left) :
                           left \in { ClipLoop(bs, path, lo, mid, acc) } } : TRUE

\* Mutant of ClipFinish: the remaining safe run is not added.
ClipFinishNoFlush(acc) == acc.clipped

\* After the loop: the remaining safe run is added.
ClipFinish(acc) ==
  IF acc.safe_path # << >> THEN acc.clipped \o acc.safe_path ELSE acc.clipped

clip_path_to_obstacles(d, bs) ==
  IF Len(d.path) < 2 THEN d
  ELSE [d EXCEPT !.clipped_path =
          ClipFinish(ClipLoop(bs, d.path, 1, Len(d.path), ClipStart(d)))]

\* ------------------------------------------------------- UrbanEnvironment
NewMetrics ==
  [ paths_planned |-> 0, obstacles_avoided |-> 0, paths_clipped |-> 0,
    successful_deliveries |-> 0 ]

NoLeg == [from |-> << >>, ticks |-> 0]

Init ==
  /\ buildings \in Layouts
  /\ drone = NewDrone(StartPos)
  /\ metrics = NewMetrics
  /\ current_delivery = 0
  /\ simulation_time = 0
  /\ is_paused = FALSE
  /\ keys = 0
  /\ op = "init"
  /\ flown = << >>
  /\ leg = NoLeg

\* Mutant of next_delivery: the delivery is counted, and the package loaded,
\* on leaving the depot instead of on returning to it.
next_delivery_counts_on_leaving(d, m, cur) ==
  LET nxt == IF cur < Len(delivery_points) - 1 THEN cur + 1 ELSE 0
      target == delivery_points[nxt + 1]
      d1 == set_target(d, target[1], target[2])
      m1 == [m EXCEPT !.paths_planned = m.paths_planned + 1]
  IN  IF cur = 0
      THEN [ drone |-> [d1 EXCEPT !.carrying_package = TRUE],
             metrics |-> [m1 EXCEPT !.successful_deliveries = m1.successful_deliveries + 1],
             current_delivery |-> nxt ]
      ELSE [ drone |-> d1, metrics |-> m1, current_delivery |-> nxt ]

\* next_delivery on (drone, metrics, current_delivery): the new values.
next_delivery(d, m, cur) ==
  LET nxt == IF cur < Len(delivery_points) - 1 THEN cur + 1 ELSE 0
      target == delivery_points[nxt + 1]
      d1 == set_target(d, target[1], target[2])
      m1 == [m EXCEPT !.paths_planned = m.paths_planned + 1]
  IN  IF nxt = 0
      THEN [ drone |-> [d1 EXCEPT !.carrying_package = TRUE],
             metrics |-> [m1 EXCEPT !.successful_deliveries = m1.successful_deliveries + 1],
             current_delivery |-> nxt ]
      ELSE [ drone |-> d1, metrics |-> m1, current_delivery |-> nxt ]

\* Mutant of AutoAdvances: the package flag is not tested.
AutoAdvances_ignores_package(d, cur) ==
  /\ ~d.is_moving
  /\ LET t == delivery_points[cur + 1]
     IN  Dist2(d.x, d.y, t[1], t[2]) < ArrivalRadius * ArrivalRadius

\* The auto-advance test at the end of UrbanEnvironment.update.
AutoAdvances(d, cur) ==
  /\ ~d.is_moving
  /\ d.carrying_package
  /\ LET t == delivery_points[cur + 1]
     IN  Dist2(d.x, d.y, t[1], t[2]) < ArrivalRadius * ArrivalRadius

\* UrbanEnvironment.update: one frame.
update ==
  /\ op' = "tick"
  /\ UNCHANGED << buildings, is_paused, keys >>
  /\ IF is_paused
     THEN UNCHANGED << drone, metrics, current_delivery, simulation_time, flown, leg >>
     ELSE
       \* d1: after self.drone.update(); d2: after clip_path_to_obstacles.
       \E d1 \in {Drone_update(drone)} :
       \E d2 \in {clip_path_to_obstacles(d1, buildings)} :
       LET m1 == IF Len(d2.clipped_path) > 0
                 THEN [metrics EXCEPT !.paths_clipped = metrics.paths_clipped + 1]
                 ELSE metrics
           m2 == IF Len(d2.path) # Len(d2.clipped_path)
                 THEN [m1 EXCEPT !.obstacles_avoided = m1.obstacles_avoided + 1]
                 ELSE m1
           auto == AutoAdvances(d2, current_delivery)
           r == IF auto
                THEN next_delivery(d2, m2, current_delivery)
                ELSE [drone |-> d2, metrics |-> m2, current_delivery |-> current_delivery]
       IN  /\ simulation_time' = simulation_time + 1
           /\ drone' = r.drone
           /\ metrics' = r.metrics
           /\ current_delivery' = r.current_delivery
           /\ flown' = IF drone.is_moving /\ FarFromTarget(drone)
                       THEN Append(flown, <<d1.x, d1.y>>)
                       ELSE flown
           /\ leg' = IF auto
                     THEN [from |-> <<d2.x, d2.y>>, ticks |-> 0]
                     ELSE IF leg = NoLeg THEN leg
                          ELSE [leg EXCEPT !.ticks = leg.ticks + 1]

Tick ==
  /\ simulation_time < MaxTicks
  /\ update

\* Mutant of handle_click: only the buildings are tested, not the zones.
handle_click_buildings_only(pos) ==
  /\ UNCHANGED << buildings, current_delivery, simulation_time, is_paused, keys, flown >>
  /\ IF \E i \in 1..Len(buildings) : collidepoint(buildings[i], pos[1], pos[2])
     THEN /\ op' = "rejected"
          /\ UNCHANGED << drone, metrics, leg >>
     ELSE /\ op' = "setTarget"
          /\ drone' = set_target(drone, pos[1], pos[2])
          /\ metrics' = [metrics EXCEPT !.paths_planned = metrics.paths_planned + 1]
          /\ leg' = [from |-> <<drone.x, drone.y>>, ticks |-> 0]

\* UrbanEnvironment.handle_click(pos).
handle_click(pos) ==
  /\ UNCHANGED << buildings, current_delivery, simulation_time, is_paused, keys, flown >>
  /\ IF in_obstacle(buildings, pos[1], pos[2])
     THEN /\ op' = "rejected"
          /\ UNCHANGED << drone, metrics, leg >>
     ELSE /\ op' = "setTarget"
          /\ drone' = set_target(drone, pos[1], pos[2])
          /\ metrics' = [metrics EXCEPT !.paths_planned = metrics.paths_planned + 1]
          /\ leg' = [from |-> <<drone.x, drone.y>>, ticks |-> 0]

\* A rejected click plans nothing, so the bound is on the accepted ones.
Click ==
  \E pos \in ClickPoints :
    /\ metrics.paths_planned < MaxPlanned \/ in_obstacle(buildings, pos[1], pos[2])
    /\ handle_click(pos)

\* K_n: self.next_delivery().
key_n ==
  /\ LET r == next_delivery(drone, metrics, current_delivery)
     IN  /\ drone' = r.drone
         /\ metrics' = r.metrics
         /\ current_delivery' = r.current_delivery
  /\ leg' = [from |-> <<drone.x, drone.y>>, ticks |-> 0]
  /\ op' = "advanceDelivery"
  /\ UNCHANGED << buildings, simulation_time, is_paused, keys, flown >>

press_next ==
  /\ metrics.paths_planned < MaxPlanned
  /\ key_n

\* Mutant of clear_path: the clipped path is not emptied.
clear_path_keeps_clipped ==
  /\ keys < MaxKeys
  /\ keys' = keys + 1
  /\ drone' = [drone EXCEPT !.path = << >>]
  /\ flown' = << >>
  /\ op' = "clearTrail"
  /\ UNCHANGED << buildings, metrics, current_delivery, simulation_time, is_paused, leg >>

\* K_c: the path and the clipped path are emptied.
clear_path ==
  /\ keys < MaxKeys
  /\ keys' = keys + 1
  /\ drone' = [drone EXCEPT !.path = << >>, !.clipped_path = << >>]
  /\ flown' = << >>
  /\ op' = "clearTrail"
  /\ UNCHANGED << buildings, metrics, current_delivery, simulation_time, is_paused, leg >>

\* Mutant of reset: the metrics are not built anew.
reset_keeps_metrics ==
  /\ keys < MaxKeys
  /\ keys' = keys + 1
  /\ buildings' \in Layouts
  /\ drone' = NewDrone(StartPos)
  /\ current_delivery' = 0
  /\ simulation_time' = 0
  /\ is_paused' = FALSE
  /\ flown' = << >>
  /\ leg' = NoLeg
  /\ op' = "reset"
  /\ UNCHANGED metrics

\* K_r: self.__init__() builds the environment anew, with a new random layout.
reset ==
  /\ keys < MaxKeys
  /\ keys' = keys + 1
  /\ buildings' \in Layouts
  /\ drone' = NewDrone(StartPos)
  /\ metrics' = NewMetrics
  /\ current_delivery' = 0
  /\ simulation_time' = 0
  /\ is_paused' = FALSE
  /\ flown' = << >>
  /\ leg' = NoLeg
  /\ op' = "reset"

\* K_SPACE.
toggle_pause ==
  /\ keys < MaxKeys
  /\ keys' = keys + 1
  /\ is_paused' = ~is_paused
  /\ op' = "pause"
  /\ UNCHANGED << buildings, drone, metrics, current_delivery, simulation_time, flown, leg >>

Next == Tick \/ Click \/ press_next \/ clear_path \/ reset \/ toggle_pause

Spec == Init /\ [][Next]_vars

\* The flight driven by frames alone: no key, no click.
FlightTick ==
  /\ simulation_time < FlightTicks
  /\ update

FlightNext == FlightTick

FlightSpec == Init /\ [][FlightNext]_vars

\* The delivery round: the N key and frames only, enough presses to come
\* round to the depot again.
RoundTick ==
  /\ simulation_time < RoundTicks
  /\ update

RoundPress ==
  /\ metrics.paths_planned < RoundPlanned
  /\ key_n

RoundNext == RoundTick \/ RoundPress \/ reset

RoundSpec == Init /\ [][RoundNext]_vars

\* ---------------------------------------------------------------- claims
\* The points of path that lie in no obstacle, in order.
SafePoints(bs, path) ==
  SelectSeq(path, LAMBDA p : ~in_obstacle(bs, p[1], p[2]))

Blocked(p) == in_obstacle(buildings, p[1], p[2])

Position == <<drone.x, drone.y>>

Target == <<drone.target_x, drone.target_y>>

\* The scenario of the filter: rectangle x in [10,20], y in [-5,5], trail
\* (5,0), (12,0), (22,0).
ScenarioFiltered ==
  clip_path_to_obstacles(
    [NewDrone(StartPos) EXCEPT !.path = << <<5, 0>>, <<12, 0>>, <<22, 0>> >>],
    << Rect(10, -5, 10, 10) >>).clipped_path

\* C1 as claimed: after every tick, for a trail of any length (0 and 1
\* included), the clipped path is exactly the unblocked points of the path,
\* in order.
C1_FilteredEqualsSafePoints ==
  op = "tick" => drone.clipped_path = SafePoints(buildings, drone.path)

\* C1 amended: after every tick, a path of two or more points has as clipped
\* path exactly its unblocked points, in order (the scenario's trail gives
\* (5,0), (22,0)); a path of fewer than two points is not filtered and the
\* clipped path is empty.
C1_FilteredEqualsSafePointsFromTwo ==
  /\ op = "tick" =>
       IF Len(drone.path) >= 2
       THEN drone.clipped_path = SafePoints(buildings, drone.path)
       ELSE drone.clipped_path = << >>
  /\ ScenarioFiltered = << <<5, 0>>, <<22, 0>> >>

\* C1 witness: after a tick, a path with a blocked point between unblocked ones.
C1_Witness ==
  /\ op = "tick"
  /\ \E i, j, k \in 1..Len(drone.path) :
       /\ i < j /\ j < k
       /\ ~Blocked(drone.path[i]) /\ Blocked(drone.path[j]) /\ ~Blocked(drone.path[k])

\* C2: in every reachable state no point of the clipped path lies in an
\* obstacle.
C2_FilteredPointsUnblocked ==
  \A i \in 1..Len(drone.clipped_path) : ~Blocked(drone.clipped_path[i])

\* C2 witness: the filter has dropped a blocked point and kept others.
C2_Witness ==
  /\ drone.clipped_path # << >>
  /\ Len(drone.clipped_path) < Len(drone.path)
  /\ \E i \in 1..Len(drone.path) : Blocked(drone.path[i])

\* s is a subsequence of t from positions i of s and j of t on.
RECURSIVE SubseqFrom(_, _, _, _)
SubseqFrom(s, t, i, j) ==
  IF i > Len(s) THEN TRUE
  ELSE IF j > Len(t) THEN FALSE
  ELSE IF s[i] = t[j] THEN SubseqFrom(s, t, i + 1, j + 1)
  ELSE SubseqFrom(s, t, i, j + 1)

IsSubseq(s, t) == SubseqFrom(s, t, 1, 1)

\* C3: in every reachable state the clipped path is a subsequence of the
\* path, in the path's order, and so is no longer than the path.
C3_FilteredIsSubsequence ==
  /\ IsSubseq(drone.clipped_path, drone.path)
  /\ Len(drone.clipped_path) <= Len(drone.path)

\* C3 witness: a proper, non-empty subsequence, seen after an operation other
\* than a tick.
C3_Witness ==
  /\ op \in {"rejected", "pause"}
  /\ Len(drone.clipped_path) >= 2
  /\ Len(drone.clipped_path) < Len(drone.path)

\* The last n elements of s.
LastN(s, n) ==
  IF Len(s) <= n THEN s ELSE SubSeq(s, Len(s) - n + 1, Len(s))

\* C4: the path never holds more than 100 points; it is the 100 most recently
\* appended positions in the order they were appended, and after 150 frames
\* of continuous movement it holds exactly 100 points.
C4_TrailBounded ==
  /\ Len(drone.path) <= 100
  /\ drone.path = LastN(flown, 100)
  /\ Len(flown) >= 150 => Len(drone.path) = 100

\* C4 witness: 150 positions appended in a row, the drone still moving.
C4_Witness ==
  /\ Len(flown) >= 150
  /\ simulation_time = Len(flown) + 1
  /\ drone.is_moving
  /\ Len(drone.path) = 100

\* C5: a click inside a building or a no-fly zone changes nothing of the
\* drone (target, moving flag, position, path) nor the count of planned
\* paths; a click elsewhere makes it the target and the drone moving.
C5_SetTarget ==
  [][\A pos \in ClickPoints :
       handle_click(pos) =>
         IF in_obstacle(buildings, pos[1], pos[2])
         THEN /\ drone' = drone
              /\ metrics'.paths_planned = metrics.paths_planned
         ELSE /\ drone'.target_x = pos[1] /\ drone'.target_y = pos[2]
              /\ drone'.is_moving]_vars

\* C5 witness: a click was rejected while the drone was flying to a target.
C5_Witness ==
  /\ op = "rejected"
  /\ drone.is_moving
  /\ drone.path # << >>
  /\ metrics.paths_planned = 1

\* C6 as claimed: driven by frames alone, the frame on which the drone
\* arrives at its waypoint advances the sequencer, so after a frame the drone
\* never rests at the waypoint it has flown to.
C6_AutoAdvanceOnArrival ==
  ~ ( /\ op = "tick"
      /\ flown # << >>
      /\ ~drone.is_moving
      /\ Position = delivery_points[current_delivery + 1] )

\* Frames needed for an axis-aligned distance d.
TicksFor(d) == IF d = 0 THEN 1 ELSE (d + speed - 1) \div speed

\* C7: a drone given a target at axis-aligned distance d is moving for the
\* first max(1, ceil(d/3)) - 1 frames and is idle exactly at the target from
\* frame max(1, ceil(d/3)) on: 10 frames for (0,0) -> (30,0).
C7_ArrivalTicks ==
  (leg # NoLeg /\ (leg.from[1] = drone.target_x \/ leg.from[2] = drone.target_y)) =>
    LET d == Abs(drone.target_x - leg.from[1]) + Abs(drone.target_y - leg.from[2])
    IN  /\ leg.ticks < TicksFor(d) => drone.is_moving
        /\ leg.ticks >= TicksFor(d) => (~drone.is_moving /\ Position = Target)

\* C7 witness: 30 units along x, idle at the target after 10 frames.
C7_Witness ==
  /\ leg = [from |-> <<100, 100>>, ticks |-> 10]
  /\ Target = <<130, 100>>
  /\ Position = <<130, 100>>
  /\ ~drone.is_moving

\* C8: the C key leaves the path and the clipped path empty and changes
\* nothing else of the drone, nor the delivery index, nor the metrics.
C8_ClearTrail ==
  [][clear_path =>
       /\ drone'.path = << >>
       /\ drone'.clipped_path = << >>
       /\ drone' = [drone EXCEPT !.path = drone'.path, !.clipped_path = drone'.clipped_path]
       /\ current_delivery' = current_delivery
       /\ metrics' = metrics]_vars

\* C8 witness: the path was cleared in flight, after the clipped path had
\* been non-empty.
C8_Witness ==
  /\ op = "clearTrail"
  /\ drone.is_moving
  /\ metrics.paths_clipped > 0
  /\ drone.path = << >>

\* C9: after the R key the environment is in its initial conditions: drone at
\* the start position, target there, idle, carrying, battery full, both paths
\* empty, delivery index 0, metrics 0, not paused.
C9_Reset ==
  op = "reset" =>
    /\ drone = [ x |-> 100, y |-> 100, target_x |-> 100, target_y |-> 100,
                 path |-> << >>, clipped_path |-> << >>, is_moving |-> FALSE,
                 battery |-> BatteryFull, carrying_package |-> TRUE ]
    /\ current_delivery = 0
    /\ metrics = [ paths_planned |-> 0, obstacles_avoided |-> 0,
                   paths_clipped |-> 0, successful_deliveries |-> 0 ]
    /\ simulation_time = 0
    /\ ~is_paused

\* C9 witness: the R key was pressed.
C9_Witness ==
  /\ op = "reset"
  /\ keys = 1
  /\ Position = StartPos

\* C10 as claimed: every unpaused frame that updates a moving drone, the
\* frame of arrival included, appends the drone's new position to the path;
\* a frame of an idle drone appends nothing.
C10_AppendOnEveryMovingTick ==
  [][(update /\ ~is_paused) =>
       IF drone.is_moving
       THEN drone'.path = LastN(Append(drone.path, <<drone'.x, drone'.y>>), 100)
       ELSE drone'.path = drone.path]_vars

\* C10 amended: an unpaused frame appends the drone's new position exactly
\* when the drone is moving and farther than its speed from the target; the
\* frame of arrival and the frames of an idle drone append nothing.
C10_AppendOnFullStep ==
  [][(update /\ ~is_paused) =>
       IF drone.is_moving /\ FarFromTarget(drone)
       THEN drone'.path = LastN(Append(drone.path, <<drone'.x, drone'.y>>), 100)
       ELSE drone'.path = drone.path]_vars

\* C10 witness: the drone has arrived and the path ends short of the target.
C10_Witness ==
  /\ op = "tick"
  /\ ~drone.is_moving
  /\ leg # NoLeg /\ leg.ticks > 1
  /\ drone.path # << >>
  /\ drone.path[Len(drone.path)] # Position

\* C11: on a frame where the drone is moving and its distance to the target
\* is at most its speed, the position becomes exactly the target, the drone
\* becomes idle and the package flag becomes false; where the distance is
\* greater, the drone stays moving and the package flag is unchanged.
C11_ArriveOrKeepMoving ==
  [][(update /\ ~is_paused /\ drone.is_moving) =>
       IF Dist2(drone.x, drone.y, drone.target_x, drone.target_y) <= speed * speed
       THEN /\ drone'.x = drone.target_x /\ drone'.y = drone.target_y
            /\ ~drone'.is_moving
            /\ ~drone'.carrying_package
       ELSE /\ drone'.is_moving
            /\ drone'.carrying_package = drone.carrying_package]_vars

\* C11 witness: the drone has just arrived, from a position off the target,
\* with the package it carried delivered.
C11_Witness ==
  /\ op = "tick"
  /\ leg # NoLeg /\ leg.ticks >= 2 /\ leg.from # Target
  /\ Position = Target
  /\ ~drone.is_moving
  /\ ~drone.carrying_package

\* The drone as it stands at the auto-advance test of a frame: after
\* Drone.update (the path filter changes neither position nor flags).
AtCheck == Drone_update(drone)

\* The auto-advance condition, evaluated on the drone as it stands at the test.
CheckHolds ==
  /\ ~AtCheck.is_moving
  /\ AtCheck.carrying_package
  /\ Dist2(AtCheck.x, AtCheck.y,
           delivery_points[current_delivery + 1][1],
           delivery_points[current_delivery + 1][2]) < ArrivalRadius * ArrivalRadius

\* C12: in a frame, the delivery index advances automatically if and only if
\* at the test (after motion and filtering) the drone is idle, carries a
\* package and is less than 10 from the waypoint at the current index; when
\* it advances it does so exactly once and the drone is left moving.
C12_AutoAdvanceIff ==
  [][(update /\ ~is_paused) =>
       IF CheckHolds
       THEN /\ metrics'.paths_planned = metrics.paths_planned + 1
            /\ current_delivery' = (current_delivery + 1) % Len(delivery_points)
            /\ drone'.is_moving
       ELSE /\ metrics'.paths_planned = metrics.paths_planned
            /\ current_delivery' = current_delivery
            /\ drone'.is_moving = AtCheck.is_moving]_vars

\* C12 witness: the first frame has advanced the index automatically, once.
C12_Witness ==
  /\ op = "tick"
  /\ simulation_time = 1
  /\ metrics.paths_planned = 1
  /\ current_delivery = 1
  /\ drone.is_moving
  /\ Target = delivery_points[2]

\* A step that advances the delivery index, by the N key or by a frame's
\* auto-advance: the only steps that count a planned path without a click.
AdvanceStep ==
  /\ metrics'.paths_planned = metrics.paths_planned + 1
  /\ op' \in {"advanceDelivery", "tick"}

\* C13: every advance, manual or automatic, sets the index to
\* (index + 1) mod the number of delivery points, sets the target to the
\* delivery point at the new index and makes the drone moving; the count of
\* successful deliveries grows by one and the package flag becomes true
\* exactly when the new index is 0, otherwise both are unchanged; the index
\* is always within 0 .. number of delivery points - 1.
C13_Advance ==
  /\ [](current_delivery \in 0 .. Len(delivery_points) - 1)
  /\ [][AdvanceStep =>
          LET new == (current_delivery + 1) % Len(delivery_points)
          IN  /\ current_delivery' = new
              /\ <<drone'.target_x, drone'.target_y>> = delivery_points[new + 1]
              /\ drone'.is_moving
              /\ IF new = 0
                 THEN /\ metrics'.successful_deliveries = metrics.successful_deliveries + 1
                      /\ drone'.carrying_package
                 ELSE /\ metrics'.successful_deliveries = metrics.successful_deliveries
                      /\ drone'.carrying_package = drone.carrying_package]_vars

\* C13 witness: the index has wrapped to the depot, a delivery was counted
\* and a package loaded.
C13_Witness ==
  /\ op = "advanceDelivery"
  /\ current_delivery = 0
  /\ metrics.paths_planned = Len(delivery_points)
  /\ metrics.successful_deliveries = 1
  /\ drone.carrying_package
  /\ drone.is_moving
  /\ Target = delivery_points[1]

\* C14: a frame taken while the drone is idle, and in which the auto-advance
\* does not fire, leaves the drone's position, target, battery, package flag
\* and path unchanged.
C14_IdleFrame ==
  [][(update /\ ~is_paused /\ ~drone.is_moving
        /\ metrics'.paths_planned = metrics.paths_planned) =>
       /\ drone'.x = drone.x /\ drone'.y = drone.y
       /\ drone'.target_x = drone.target_x /\ drone'.target_y = drone.target_y
       /\ drone'.battery = drone.battery
       /\ drone'.carrying_package = drone.carrying_package
       /\ drone'.path = drone.path
       /\ ~drone'.is_moving]_vars

\* C14 witness: a frame has passed since the drone arrived at a clicked
\* target one full step and one arrival away.
C14_Witness ==
  /\ op = "tick"
  /\ leg = [from |-> <<100, 100>>, ticks |-> 3]
  /\ Target = <<104, 100>>
  /\ Position = Target
  /\ ~drone.is_moving
  /\ drone.battery = BatteryFull - BatteryCost

\* C15: the normalisation never divides by zero: a frame that runs the
\* normalise-and-move step (seen by its battery cost) starts at a distance
\* greater than the speed, and a frame that starts with the drone moving at
\* distance zero from its target leaves it idle at the target without that
\* step (no path point, no battery cost).
C15_NoDivisionByZero ==
  [][(update /\ ~is_paused /\ drone.is_moving) =>
       LET dist2 == Dist2(drone.x, drone.y, drone.target_x, drone.target_y)
       IN  /\ drone'.battery # drone.battery => dist2 > speed * speed
           /\ dist2 = 0 =>
                 /\ ~drone'.is_moving
                 /\ drone'.x = drone.target_x /\ drone'.y = drone.target_y
                 /\ drone'.path = drone.path
                 /\ drone'.battery = drone.battery]_vars

\* C15 witness: a click on the drone's own position, then one frame.
C15_Witness ==
  /\ op = "tick"
  /\ leg = [from |-> StartPos, ticks |-> 1]
  /\ Target = StartPos
  /\ Position = StartPos
  /\ ~drone.is_moving
  /\ drone.path = << >>
  /\ drone.battery = BatteryFull

\* C16 as stated: on every frame in which a moving drone changes its position
\* the battery falls by exactly the flat cost, and only a reset raises the
\* battery.
C16_CostOnEveryMove ==
  [][/\ (update /\ ~is_paused /\ drone.is_moving
           /\ <<drone'.x, drone'.y>> # <<drone.x, drone.y>>) =>
          drone'.battery = drone.battery - BatteryCost
     /\ drone'.battery > drone.battery => op' = "reset"]_vars

\* C16 amended: on every frame in which a moving drone is farther than its
\* speed from the target the battery falls by exactly the flat cost; the
\* frame of arrival, which moves the drone by up to its speed, costs nothing;
\* only a reset raises the battery.
C16_FlatCostOnFullStep ==
  [][/\ (update /\ ~is_paused /\ drone.is_moving) =>
          IF FarFromTarget(drone)
          THEN drone'.battery = drone.battery - BatteryCost
          ELSE drone'.battery = drone.battery
     /\ drone'.battery > drone.battery => op' = "reset"]_vars

\* C16 witness: 4 units flown in one full step and one arrival frame, for
\* the cost of one frame.
C16_Witness ==
  /\ op = "tick"
  /\ leg = [from |-> <<100, 100>>, ticks |-> 2]
  /\ Target = <<104, 100>>
  /\ Position = Target
  /\ drone.path = << <<103, 100>> >>
  /\ drone.battery = BatteryFull - BatteryCost

\* C17: the obstacles_avoided counter is incremented on a frame only if the
\* clipped path and the path differ in length because at least one path
\* point is blocked; it is never incremented on a frame where every path
\* point is unblocked.
C17_CountsOnlyBlockedPoints ==
  [][(update /\ ~is_paused
        /\ metrics'.obstacles_avoided > metrics.obstacles_avoided) =>
       /\ Len(drone'.clipped_path) # Len(drone'.path)
       /\ \E i \in 1..Len(drone'.path) : Blocked(drone'.path[i])]_vars

\* The obstacle test with every rectangle edge counted as inside.
BlockedInclusive(p) ==
  \/ \E i \in 1..Len(buildings) :
       /\ buildings[i].x <= p[1] /\ p[1] <= buildings[i].x + buildings[i].w
       /\ buildings[i].y <= p[2] /\ p[2] <= buildings[i].y + buildings[i].h
  \/ \E i \in 1..Len(no_fly_zones) :
       Dist2(no_fly_zones[i].cx, no_fly_zones[i].cy, p[1], p[2])
         <= no_fly_zones[i].radius * no_fly_zones[i].radius

\* The obstacle test with the left and top edges of a rectangle inside and
\* its right and bottom edges outside.
BlockedHalfOpen(p) ==
  \/ \E i \in 1..Len(buildings) :
       /\ buildings[i].x <= p[1] /\ p[1] < buildings[i].x + buildings[i].w
       /\ buildings[i].y <= p[2] /\ p[2] < buildings[i].y + buildings[i].h
  \/ \E i \in 1..Len(no_fly_zones) :
       Dist2(no_fly_zones[i].cx, no_fly_zones[i].cy, p[1], p[2])
         <= no_fly_zones[i].radius * no_fly_zones[i].radius

\* C18 as stated: a click is rejected, and a point of a path of two or more
\* points is dropped by the filter, iff some rectangle contains the point
\* with all four edges counted as inside (left <= x <= right and
\* top <= y <= bottom) or some circle contains it (squared distance to the
\* centre <= radius squared).
C18_ObstacleTestInclusive ==
  /\ []((op = "tick" /\ Len(drone.path) >= 2) =>
          drone.clipped_path =
            SelectSeq(drone.path, LAMBDA p : ~BlockedInclusive(p)))
  /\ [][\A pos \in ClickPoints :
          handle_click(pos) => (op' = "rejected" <=> BlockedInclusive(pos))]_vars

\* C18 amended: the same with the right and bottom edges of a rectangle
\* outside it (left <= x < right and top <= y < bottom); the filter and the
\* click handler agree on every point.
C18_ObstacleTestHalfOpen ==
  /\ []((op = "tick" /\ Len(drone.path) >= 2) =>
          drone.clipped_path =
            SelectSeq(drone.path, LAMBDA p : ~BlockedHalfOpen(p)))
  /\ [][\A pos \in ClickPoints :
          handle_click(pos) => (op' = "rejected" <=> BlockedHalfOpen(pos))]_vars

\* C18 witness: the drone has flown out of the building over the depot; the
\* filter dropped the points inside and kept the one on the right edge.
C18_Witness ==
  /\ op = "tick"
  /\ buildings = LayoutC
  /\ Len(drone.path) >= 2
  /\ drone.path[Len(drone.path)] = <<130, 100>>
  /\ drone.clipped_path = << <<130, 100>> >>
  /\ BlockedInclusive(<<130, 100>>)
  /\ ~BlockedHalfOpen(<<130, 100>>)

\* No target has been set since construction or the last reset.
Untargeted ==
  /\ metrics.paths_planned = 0
  /\ leg = NoLeg
  /\ current_delivery = 0
  /\ Position = StartPos

C20_TargetUnblocked ==
  ~in_obstacle(buildings, drone.target_x, drone.target_y)

====
